---- MODULE Spec2Model ----
\* A model of path_abs: the lexical path cleaner clean_path (algorithm.rs) and
\* the validating constructors and classifiers built over the filesystem
\* (entry.rs, symlink.rs, ty.rs).
\*
\* Path text is a sequence of one-character strings, POSIX syntax: "/" is the
\* only separator and there is no prefix component.
EXTENDS Integers, Sequences, FiniteSets, TLC

\* ------------------------------------------------------------------ bounds
\* Longest exhaustively enumerated path text.
MaxLen == 6

\* Characters of the enumerated path texts: the separator, the dot, two letters.
Alphabet == {"/", ".", "a", "b"}

\* --------------------------------------------------------- the doc examples
\* "/recipes/./snacks/../desserts/banana_creme_pie.txt"
Doc1In ==
    <<"/", "r", "e", "c", "i", "p", "e", "s", "/", ".", "/", "s", "n", "a",
      "c", "k", "s", "/", ".", ".", "/", "d", "e", "s", "s", "e", "r", "t",
      "s", "/", "b", "a", "n", "a", "n", "a", "_", "c", "r", "e", "m", "e",
      "_", "p", "i", "e", ".", "t", "x", "t">>
\* "/recipes/desserts/banana_creme_pie.txt"
Doc1Out ==
    <<"/", "r", "e", "c", "i", "p", "e", "s", "/", "d", "e", "s", "s", "e",
      "r", "t", "s", "/", "b", "a", "n", "a", "n", "a", "_", "c", "r", "e",
      "m", "e", "_", "p", "i", "e", ".", "t", "x", "t">>
\* "../.././lots///of////./separators/"
Doc2In ==
    <<".", ".", "/", ".", ".", "/", ".", "/", "l", "o", "t", "s", "/", "/",
      "/", "o", "f", "/", "/", "/", "/", ".", "/", "s", "e", "p", "a", "r",
      "a", "t", "o", "r", "s", "/">>
\* "../../lots/of/separators"
Doc2Out ==
    <<".", ".", "/", ".", ".", "/", "l", "o", "t", "s", "/", "o", "f", "/",
      "s", "e", "p", "a", "r", "a", "t", "o", "r", "s">>
\* "/../../../cannot_go_above_root"
Doc3In ==
    <<"/", ".", ".", "/", ".", ".", "/", ".", ".", "/", "c", "a", "n", "n",
      "o", "t", "_", "g", "o", "_", "a", "b", "o", "v", "e", "_", "r", "o",
      "o", "t">>
\* "/cannot_go_above_root"
Doc3Out ==
    <<"/", "c", "a", "n", "n", "o", "t", "_", "g", "o", "_", "a", "b", "o",
      "v", "e", "_", "r", "o", "o", "t">>
\* "a/../../b" gives "../b", "./a/./b/" gives "a/b", "a/.." gives "."
UpUpIn == <<"a", "/", ".", ".", "/", ".", ".", "/", "b">>
UpUpOut == <<".", ".", "/", "b">>
DotsIn == <<".", "/", "a", "/", ".", "/", "b", "/">>
DotsOut == <<"a", "/", "b">>
CancelIn == <<"a", "/", ".", ".">>

DocInputs == {Doc1In, Doc2In, Doc3In, UpUpIn, DotsIn, CancelIn}

\* -------------------------------------------------------------- components
\* std::path::Component: a kind and the text as_os_str() gives back.
RootDir == [kind |-> "RootDir", str |-> <<"/">>]
CurDir == [kind |-> "CurDir", str |-> <<".">>]
ParentDir == [kind |-> "ParentDir", str |-> <<".", ".">>]
Normal(name) == [kind |-> "Normal", str |-> name]

as_os_str(c) == c.str

has_root(p) == Len(p) > 0 /\ p[1] = "/"

\* Components::include_cur_dir: a leading "." of a relative path is the only
\* "." that the iterator yields.
include_cur_dir(p) ==
    /\ ~has_root(p)
    /\ Len(p) >= 1
    /\ p[1] = "."
    /\ (Len(p) = 1 \/ p[2] = "/")

\* Components::parse_single_component: "" and "." yield nothing.
parse_single_component(seg) ==
    IF seg = <<>> \/ seg = <<".">> THEN <<>>
    ELSE IF seg = <<".", ".">> THEN <<ParentDir>>
    ELSE <<Normal(seg)>>

\* The body of a path from position i on: the text between separators, each
\* piece parsed on its own. seg is the piece read so far.
RECURSIVE body_components(_, _, _)
body_components(p, i, seg) ==
    IF i > Len(p) THEN parse_single_component(seg)
    ELSE IF p[i] = "/"
         THEN parse_single_component(seg) \o body_components(p, i + 1, <<>>)
         ELSE body_components(p, i + 1, Append(seg, p[i]))

\* Path::components() on a POSIX path.
components(p) ==
    IF has_root(p) THEN <<RootDir>> \o body_components(p, 2, <<>>)
    ELSE IF include_cur_dir(p) THEN <<CurDir>> \o body_components(p, 2, <<>>)
    ELSE body_components(p, 1, <<>>)

\* PathBuf::push on a POSIX path: an absolute path replaces the buffer, a
\* relative one is appended after a separator if the buffer needs one.
push(buf, p) ==
    LET need_sep == Len(buf) > 0 /\ buf[Len(buf)] # "/"
    IN  IF has_root(p) THEN p
        ELSE IF need_sep THEN buf \o <<"/">> \o p
        ELSE buf \o p

\* ------------------------------------------------------------- clean_path
Last(s) == s[Len(s)]
Pop(s) == SubSeq(s, 1, Len(s) - 1)

\* The unreachable!() arm: a ParentDir met while a CurDir tops the stack.
step_panics(stk, component) ==
    /\ component.kind = "ParentDir"
    /\ stk # <<>>
    /\ Last(stk).kind = "CurDir"

\* The ParentDir arm with a '..' pushed above the root.
parent_dir_root_pushes(stk, component) ==
    IF stk = <<>> THEN Append(stk, component)
    ELSE IF Last(stk).kind = "Prefix" THEN Append(stk, component)
    ELSE IF Last(stk).kind = "RootDir" THEN Append(stk, component)
    ELSE IF Last(stk).kind = "CurDir" THEN stk
    ELSE IF Last(stk).kind = "ParentDir" THEN Append(stk, component)
    ELSE Pop(stk)

\* The ParentDir arm with a leading '..' lost on an empty stack.
parent_dir_empty_drops(stk, component) ==
    IF stk = <<>> THEN stk
    ELSE IF Last(stk).kind = "Prefix" THEN Append(stk, component)
    ELSE IF Last(stk).kind = "RootDir" THEN stk
    ELSE IF Last(stk).kind = "CurDir" THEN stk
    ELSE IF Last(stk).kind = "ParentDir" THEN Append(stk, component)
    ELSE Pop(stk)

\* The ParentDir arm with the '..' dropped and the name under it kept.
parent_dir_keeps_name(stk, component) ==
    IF stk = <<>> THEN Append(stk, component)
    ELSE IF Last(stk).kind = "Prefix" THEN Append(stk, component)
    ELSE IF Last(stk).kind = "RootDir" THEN stk
    ELSE IF Last(stk).kind = "CurDir" THEN stk
    ELSE IF Last(stk).kind = "ParentDir" THEN Append(stk, component)
    ELSE stk

\* The Component::ParentDir arm: the top of the stack decides. (The CurDir
\* top is the unreachable!() arm, see step_panics.)
parent_dir_arm(stk, component) ==
    IF stk = <<>> THEN Append(stk, component)
    ELSE IF Last(stk).kind = "Prefix" THEN Append(stk, component)
    ELSE IF Last(stk).kind = "RootDir" THEN stk
    ELSE IF Last(stk).kind = "CurDir" THEN stk
    ELSE IF Last(stk).kind = "ParentDir" THEN Append(stk, component)
    ELSE Pop(stk)

\* One turn of the loop with a CurDir pushed like any other component.
clean_step_pushing_cur_dir(stk, component) ==
    IF component.kind = "ParentDir" THEN parent_dir_arm(stk, component)
    ELSE Append(stk, component)

\* One turn of the loop over path.components(): the stack afterwards.
clean_step(stk, component) ==
    IF component.kind = "CurDir" THEN stk
    ELSE IF component.kind = "ParentDir" THEN parent_dir_arm(stk, component)
    ELSE Append(stk, component)

\* The stack emptied from its top, last item first.
RECURSIVE push_all_popping(_, _)
push_all_popping(buf, stk) ==
    IF stk = <<>> THEN buf
    ELSE push_all_popping(push(buf, as_os_str(Last(stk))), Pop(stk))

\* The path pushed together from the stack, first item first.
RECURSIVE push_all(_, _)
push_all(buf, stk) ==
    IF stk = <<>> THEN buf
    ELSE push_all(push(buf, as_os_str(Head(stk))), Tail(stk))

\* The result without the guard against an empty path.
clean_result_unguarded(stk) == push_all(<<>>, stk)

\* What clean_path returns for the final stack.
clean_result(stk) ==
    IF stk = <<>> THEN as_os_str(CurDir) ELSE push_all(<<>>, stk)

\* --------------------------------------------------------------- the state
VARIABLES
    input,      \* the path text clean_path was first called with
    path,       \* the argument of the running call of clean_path
    pass,       \* 1: clean_path(input), 2: clean_path of the first result
    pc,         \* clean_path: "start", "loop", "done", "panic"; else "idle"
    comps,      \* what path.components() has yet to yield
    stack,      \* clean_path's stack
    norm_path,  \* the value returned by the running call
    first,      \* the value returned by the first call
    fs,         \* the filesystem: canonical absolute path -> what is there
    val,        \* the path value the caller holds: [ty, path]
    res,        \* the last call on the filesystem: [op, arg, out]
    walk_path,  \* discover_paths: the argument path
    filter,     \* discover_paths: the argument filter, by name
    visited,    \* discover_paths: the argument visited
    it,         \* discover_paths: the WalkDir iterator
    found,      \* discover_paths: the FoundPaths being filled
    asked,      \* the paths filter has been called with
    yielded,    \* the entries the iterator has yielded, canonical
    wpc         \* discover_paths: "loop", "done", "err", "panic"; else "idle"

cvars == <<input, path, pass, pc, comps, stack, norm_path, first>>
fvars == <<fs, val, res>>
wvars == <<walk_path, filter, visited, it, found, asked, yielded, wpc>>
vars ==
    <<input, path, pass, pc, comps, stack, norm_path, first, fs, val, res,
      walk_path, filter, visited, it, found, asked, yielded, wpc>>

\* ============================================================ filesystem
\* A path value (Path, PathArc and the types wrapping it) is the sequence of
\* its components: what Path::components() yields for its text.

\* Longest enumerated argument path, in components after the leading one.
MaxDepth == 2

\* Symlinks the OS follows in one resolution before it gives up with ELOOP.
MaxHops == 3

Name(ch) == Normal(<<ch>>)
Root == <<RootDir>>

\* The absolute path /n1/n2/...
Abs(names) == Root \o [i \in 1..Len(names) |-> Name(names[i])]

\* What the filesystem holds at a canonical absolute path.
Dir == [type |-> "dir", target |-> <<>>]
File == [type |-> "file", target |-> <<>>]
Other == [type |-> "other", target |-> <<>>]
Symlink(target) == [type |-> "symlink", target |-> target]

\* The tree the operations run on:
\*   /        directory          /k  -> d    (link to a directory)
\*   /d       directory          /c  -> /k   (link to a link, absolute target)
\*   /d/f     regular file       /j  -> x    (dangling link)
\*   /d/l     -> ../f (link)     /p  -> p    (link to itself)
\*   /d/o     fifo               /o  fifo
\*   /f       regular file       /d/e  empty directory
\*   nothing is named x
Tree ==
    (Abs(<<>>) :> Dir) @@ (Abs(<<"d">>) :> Dir) @@ (Abs(<<"d", "f">>) :> File)
    @@ (Abs(<<"d", "l">>) :> Symlink(<<ParentDir, Name("f")>>))
    @@ (Abs(<<"d", "o">>) :> Other) @@ (Abs(<<"f">>) :> File)
    @@ (Abs(<<"o">>) :> Other)
    @@ (Abs(<<"k">>) :> Symlink(<<Name("d")>>))
    @@ (Abs(<<"c">>) :> Symlink(Abs(<<"k">>)))
    @@ (Abs(<<"j">>) :> Symlink(<<Name("x")>>))
    @@ (Abs(<<"p">>) :> Symlink(<<Name("p")>>))
    @@ (Abs(<<"d", "e">>) :> Dir)

\* The working directory of the process.
cwd == Abs(<<"d">>)

Names == {"d", "e", "f", "l", "o", "k", "c", "j", "p", "x"}

\* ------------------------------------------------- the operating system
OsOk(loc) == [ok |-> TRUE, loc |-> loc, errno |-> "", type |-> ""]
OsErr(errno) == [ok |-> FALSE, loc |-> <<>>, errno |-> errno, type |-> ""]

\* Path resolution from the directory cur: rest is what is left to walk, a
\* symlink is followed unless it is the last component and follow is FALSE.
RECURSIVE resolve(_, _, _, _, _)
resolve(f, cur, rest, follow, fuel) ==
    IF rest = <<>> THEN OsOk(cur)
    ELSE IF f[cur].type # "dir" THEN OsErr("ENOTDIR")
    ELSE LET c == Head(rest)
             child == Append(cur, c)
         IN  IF c.kind = "RootDir" THEN resolve(f, Root, Tail(rest), follow, fuel)
             ELSE IF c.kind = "CurDir" THEN resolve(f, cur, Tail(rest), follow, fuel)
             ELSE IF c.kind = "ParentDir"
                  THEN resolve(f, IF cur = Root THEN Root ELSE Pop(cur),
                               Tail(rest), follow, fuel)
             ELSE IF child \notin DOMAIN f THEN OsErr("ENOENT")
             ELSE IF f[child].type = "symlink" /\ (Tail(rest) # <<>> \/ follow)
                  THEN IF fuel = 0 THEN OsErr("ELOOP")
                       ELSE resolve(f, cur, f[child].target \o Tail(rest),
                                    follow, fuel - 1)
             ELSE resolve(f, child, Tail(rest), follow, fuel)

\* What the OS found at the end of a resolution: the place and its type.
found_at(f, r) == IF r.ok THEN [r EXCEPT !.type = f[r.loc].type] ELSE r

\* A path looked up by the OS: the empty path names nothing.
lookup(f, p, follow) ==
    IF p = <<>> THEN OsErr("ENOENT")
    ELSE found_at(f, resolve(f, IF Head(p).kind = "RootDir" THEN Root ELSE cwd,
                             p, follow, MaxHops))

\* std::fs::canonicalize, metadata (follows a final symlink) and
\* symlink_metadata (does not).
os_canonicalize(f, p) == lookup(f, p, TRUE)
os_metadata(f, p) == lookup(f, p, TRUE)
os_symlink_metadata(f, p) == lookup(f, p, FALSE)

\* io::Error::kind() of an OS error: only ENOENT is NotFound.
ErrorKind(errno) == IF errno = "ENOENT" THEN "NotFound" ELSE "Other"

\* --------------------------------------------------------- path values
\* Path::parent and Path::file_name, by the last component.
parent(p) ==
    IF p # <<>> /\ Last(p).kind \in {"Normal", "CurDir", "ParentDir"}
    THEN [some |-> TRUE, path |-> Pop(p)]
    ELSE [some |-> FALSE, path |-> <<>>]

file_name(p) ==
    IF p # <<>> /\ Last(p).kind = "Normal"
    THEN [some |-> TRUE, name |-> Last(p)]
    ELSE [some |-> FALSE, name |-> CurDir]

\* Path::join with a file name.
join(p, name) == Append(p, name)

\* A Result: Ok(variant(path)) or Err(Error::new(io kind, action, path)),
\* with the OS calls that were made on the way.
Ok(variant, p, calls) ==
    [ok |-> TRUE, variant |-> variant, path |-> p, kind |-> "", action |-> "",
     calls |-> calls]
Err(kind, action, p, calls) ==
    [ok |-> FALSE, variant |-> "Err", path |-> p, kind |-> kind,
     action |-> action, calls |-> calls]
Call(name, p) == [call |-> name, path |-> p]

\* PathArc::canonicalize: the OS canonicalization, as a PathAbs.
canonicalized(r, p, calls) ==
    IF r.ok THEN Ok("PathAbs", r.loc, calls)
    ELSE Err(ErrorKind(r.errno), "canonicalizing", p, calls)

canonicalize(f, p) ==
    canonicalized(os_canonicalize(f, p), p, <<Call("canonicalize", p)>>)

\* canonicalize_parent with nothing canonicalized: the path as it was given.
canonicalize_parent_lexical(f, p) == Ok("PathArc", p, <<>>)

split_file_name(p) ==
    IF parent(p).some /\ file_name(p).some
    THEN [some |-> TRUE, parent |-> parent(p).path, name |-> file_name(p).name]
    ELSE [some |-> FALSE, parent |-> <<>>, name |-> CurDir]

canonicalize_parent(f, p) ==
    LET split == split_file_name(p)
    IN  IF ~split.some THEN [canonicalize(f, p) EXCEPT !.variant =
                                IF @ = "PathAbs" THEN "PathArc" ELSE @]
        ELSE LET r == canonicalize(f, split.parent)
             IN  IF r.ok THEN Ok("PathArc", join(r.path, split.name), r.calls)
                 ELSE r

\* PathArc::symlink_metadata and PathArc::metadata of a path value.
\* The OS answer r to a metadata call on p as a Result: the file type, or
\* the error wrapped with the action and the path.
metadata_of(r, action, p, calls) ==
    IF r.ok THEN Ok(r.type, p, calls)
    ELSE Err(ErrorKind(r.errno), action, p, calls)

symlink_metadata(f, p) ==
    metadata_of(os_symlink_metadata(f, p), "getting symlink metadata", p,
                <<Call("symlink_metadata", p)>>)

metadata(f, p) ==
    metadata_of(os_metadata(f, p), "getting metadata", p,
                <<Call("metadata", p)>>)

\* PathArc::canonicalize_entry: the parent canonicalized, then the entry
\* itself looked up without following it.
canonicalize_entry(f, p) ==
    LET cp == canonicalize_parent(f, p)
    IN  IF ~cp.ok THEN cp
        ELSE LET md == symlink_metadata(f, cp.path)
             IN  IF md.ok THEN Ok("PathEntry", cp.path, cp.calls \o md.calls)
                 ELSE [md EXCEPT !.calls = cp.calls \o @]

\* PathAbs::new: full canonicalization.
PathAbs_new(f, p) == canonicalize(f, p)

\* PathEntry::new through the parent's canonicalization alone, the entry
\* itself never looked up.
PathEntry_new_unverified(f, p) ==
    [canonicalize_parent(f, p) EXCEPT !.variant = IF @ = "PathArc" THEN "PathEntry" ELSE @]

\* PathEntry::new
PathEntry_new(f, p) == canonicalize_entry(f, p)

\* PathEntry::parent_dir: Path::parent wrapped as a PathDir, no call made.
PathEntry_parent_dir(entry) ==
    IF parent(entry).some THEN Ok("Some(PathDir)", parent(entry).path, <<>>)
    ELSE Ok("None", <<>>, <<>>)

\* PathSymlink::from_entry asking metadata(), which follows the link.
PathSymlink_from_entry_following(f, entry) ==
    LET md == metadata(f, entry)
    IN  IF ~md.ok THEN md
        ELSE IF md.variant = "symlink" THEN Ok("PathSymlink", entry, md.calls)
        ELSE Err("InvalidInput", "resolving", entry, md.calls)

\* PathSymlink::from_entry
PathSymlink_from_entry(f, entry) ==
    LET md == symlink_metadata(f, entry)
    IN  IF ~md.ok THEN md
        ELSE IF md.variant = "symlink" THEN Ok("PathSymlink", entry, md.calls)
        ELSE Err("InvalidInput", "resolving", entry, md.calls)

\* Either result followed by g applied to the path of an Ok.
and_then(r, after) ==
    IF r.ok THEN [after EXCEPT !.calls = r.calls \o @] ELSE r

\* PathSymlink::new
PathSymlink_new(f, p) ==
    LET e == PathEntry_new(f, p)
    IN  and_then(e, PathSymlink_from_entry(f, e.path))

\* PathEntry::into_symlink
PathEntry_into_symlink(f, entry) == PathSymlink_from_entry(f, entry)

\* PathArc::read_link: the target as it is stored in the link.
read_link(f, p) ==
    LET r == os_symlink_metadata(f, p)
        calls == <<Call("read_link", p)>>
    IN  IF ~r.ok THEN Err(ErrorKind(r.errno), "reading link", p, calls)
        ELSE IF r.type # "symlink" THEN Err("InvalidInput", "reading link", p, calls)
        ELSE Ok("PathArc", f[r.loc].target, calls)

\* Path::with_file_name: the file name popped if there is one, the new
\* name pushed; a pushed absolute path replaces all.
with_file_name(p, name) ==
    IF name # <<>> /\ Head(name).kind = "RootDir" THEN name
    ELSE IF file_name(p).some THEN Pop(p) \o name
    ELSE p \o name

\* PathSymlink::target giving the target as it is stored.
PathSymlink_target_raw(f, self) == read_link(f, self)

\* PathSymlink::target
PathSymlink_target(f, self) ==
    IF read_link(f, self).ok
    THEN [read_link(f, self) EXCEPT !.path = with_file_name(self, @)]
    ELSE read_link(f, self)

\* PathSymlink::follow
PathSymlink_follow(f, self) ==
    and_then(PathSymlink_target(f, self),
             canonicalize_entry(f, PathSymlink_target(f, self).path))

\* PathType::from_abs asking symlink_metadata(), which does not follow.
PathType_from_abs_not_following(f, abs) ==
    LET ty == symlink_metadata(f, abs)
    IN  IF ~ty.ok THEN ty
        ELSE IF ty.variant = "file" THEN Ok("PathType::File", abs, ty.calls)
        ELSE IF ty.variant = "dir" THEN Ok("PathType::Dir", abs, ty.calls)
        ELSE Err("InvalidInput", "resolving", abs, ty.calls)

\* PathType::from_abs
PathType_from_abs(f, abs) ==
    LET ty == metadata(f, abs)
    IN  IF ~ty.ok THEN ty
        ELSE IF ty.variant = "file" THEN Ok("PathType::File", abs, ty.calls)
        ELSE IF ty.variant = "dir" THEN Ok("PathType::Dir", abs, ty.calls)
        ELSE Err("InvalidInput", "resolving", abs, ty.calls)

\* PathType::new
PathType_new(f, p) ==
    LET abs == PathAbs_new(f, p)
    IN  and_then(abs, PathType_from_abs(f, abs.path))

\* EntryType::from_entry with the file test ahead of the symlink test, on
\* metadata() that follows the link.
EntryType_from_entry_following(f, entry) ==
    LET ty == metadata(f, entry)
        ln == symlink_metadata(f, entry)
    IN  IF ~ln.ok THEN ln
        ELSE IF ty.ok /\ ty.variant = "file"
             THEN Ok("EntryType::File", entry, ln.calls)
        ELSE IF ty.ok /\ ty.variant = "dir"
             THEN Ok("EntryType::Dir", entry, ln.calls)
        ELSE IF ln.variant = "symlink"
             THEN Ok("EntryType::Symlink", entry, ln.calls)
        ELSE Ok("EntryType::Other", entry, ln.calls)

\* EntryType::from_entry
EntryType_from_entry(f, entry) ==
    LET ty == symlink_metadata(f, entry)
    IN  IF ~ty.ok THEN ty
        ELSE IF ty.variant = "symlink"
             THEN Ok("EntryType::Symlink", entry, ty.calls)
        ELSE IF ty.variant = "file" THEN Ok("EntryType::File", entry, ty.calls)
        ELSE IF ty.variant = "dir" THEN Ok("EntryType::Dir", entry, ty.calls)
        ELSE Ok("EntryType::Other", entry, ty.calls)

\* EntryType::new
EntryType_new(f, p) ==
    LET abs == PathEntry_new(f, p)
    IN  and_then(abs, EntryType_from_entry(f, abs.path))

\* ------------------------------------------------------------- renaming
\* The directories another device is mounted on: what is at or below one is
\* on that device, everything else on the device of the root.
Mounts == {Abs(<<"d">>)}

IsPrefix(a, b) == Len(a) <= Len(b) /\ SubSeq(b, 1, Len(a)) = a

device(loc) ==
    IF \E m \in Mounts : IsPrefix(m, loc)
    THEN CHOOSE m \in Mounts : IsPrefix(m, loc)
    ELSE Root

\* Where the OS would put a new name: the directory of the path resolved,
\* its last component a name that is not followed.
lookup_new(f, p) ==
    IF p = <<>> THEN OsErr("ENOENT")
    ELSE IF Last(p).kind # "Normal" THEN OsErr("EBUSY")
    ELSE LET r == resolve(f, IF Head(p).kind = "RootDir" THEN Root ELSE cwd,
                          Pop(p), TRUE, MaxHops)
         IN  IF ~r.ok THEN r
             ELSE IF f[r.loc].type # "dir" THEN OsErr("ENOTDIR")
             ELSE OsOk(Append(r.loc, Last(p)))

\* The tree with what is at src, and all below it, moved to dst; what was
\* at dst is replaced.
moved(f, src, dst) ==
    LET stay == {l \in DOMAIN f : ~IsPrefix(src, l) /\ l # dst}
        go == {l \in DOMAIN f : IsPrefix(src, l)}
        to(l) == dst \o SubSeq(l, Len(src) + 1, Len(l))
    IN  [l \in stay |-> f[l]]
            @@ [l \in {to(g) : g \in go} |-> f[CHOOSE g \in go : to(g) = l]]

\* rename(2): the errno of a failure, or "" and the tree afterwards.
OsRenamed(f) == [ok |-> TRUE, errno |-> "", fs |-> f]
OsRenameErr(f, errno) == [ok |-> FALSE, errno |-> errno, fs |-> f]

\* rename(2) of what the OS found at src to the new name dst.
os_rename_at(f, src, dst) ==
    IF ~src.ok THEN OsRenameErr(f, src.errno)
    ELSE IF ~dst.ok THEN OsRenameErr(f, dst.errno)
    ELSE IF src.loc = Root \/ src.loc \in Mounts \/ dst.loc \in Mounts
         THEN OsRenameErr(f, "EBUSY")
    ELSE IF device(src.loc) # device(dst.loc) THEN OsRenameErr(f, "EXDEV")
    ELSE IF src.loc = dst.loc THEN OsRenamed(f)
    ELSE IF src.type = "dir" /\ IsPrefix(src.loc, dst.loc)
         THEN OsRenameErr(f, "EINVAL")
    ELSE IF dst.loc \in DOMAIN f /\ src.type = "dir"
            /\ f[dst.loc].type # "dir"
         THEN OsRenameErr(f, "ENOTDIR")
    ELSE IF dst.loc \in DOMAIN f /\ src.type # "dir"
            /\ f[dst.loc].type = "dir"
         THEN OsRenameErr(f, "EISDIR")
    ELSE IF dst.loc \in DOMAIN f /\ src.type = "dir"
            /\ \E l \in DOMAIN f : l # dst.loc /\ IsPrefix(dst.loc, l)
         THEN OsRenameErr(f, "ENOTEMPTY")
    ELSE OsRenamed(moved(f, src.loc, dst.loc))

os_rename(f, from, to) ==
    os_rename_at(f, lookup(f, from, FALSE), lookup_new(f, to))

\* Path::display: the text of a path, as one string.
RECURSIVE text(_)
text(chars) == IF chars = <<>> THEN "" ELSE Head(chars) \o text(Tail(chars))

display(p) == text(push_all(<<>>, p))

\* format!("renaming to {} from", to.display())
renaming_to(to) == "renaming to " \o display(to) \o " from"

\* What a rename gives back: the Result and the tree it leaves.
Renamed(out, f) == [out |-> out, fs |-> f]

\* rename that goes on to validate the destination whatever the OS said.
rename_unchecked(os, self, to) ==
    Renamed([PathSymlink_new(os.fs, to) EXCEPT
                !.calls = <<Call("rename", self)>> \o @], os.fs)

\* What rename makes of the answer os of fs::rename: its error wrapped with
\* the action and self, else PathSymlink::new(to).
rename_result(os, self, to) ==
    IF ~os.ok
    THEN Renamed(Err(ErrorKind(os.errno), renaming_to(to), self,
                     <<Call("rename", self)>>), os.fs)
    ELSE Renamed([PathSymlink_new(os.fs, to) EXCEPT
                    !.calls = <<Call("rename", self)>> \o @], os.fs)

\* PathEntry::rename and PathSymlink::rename
rename(f, self, to) == rename_result(os_rename(f, self, to), self, to)

PathEntry_rename(f, self, to) == rename(f, self, to)
PathSymlink_rename(f, self, to) == rename(f, self, to)

\* ------------------------------------------------ the filesystem's calls
NoVal == [ty |-> "none", path |-> <<>>]
NoRes == [op |-> "none", arg |-> <<>>, out |-> Ok("none", <<>>, <<>>)]

\* No call of discover_paths is under way.
WalkIdle ==
    /\ walk_path = <<>>
    /\ filter = "all"
    /\ visited = {}
    /\ it = [start |-> FALSE, stack |-> <<>>]
    /\ found = [files |-> <<>>, dirs |-> <<>>]
    /\ asked = {}
    /\ yielded = {}
    /\ wpc = "idle"

\* ------------------------------------------------------ clean_path's calls
RECURSIVE Texts(_)
Texts(n) ==
    IF n = 0 THEN {<<>>}
    ELSE LET shorter == Texts(n - 1)
         IN  shorter \cup {Append(t, ch) : t \in {s \in shorter : Len(s) = n - 1},
                                            ch \in Alphabet}

CleanInit ==
    /\ input \in Texts(MaxLen) \cup DocInputs
    /\ path = input
    /\ pass = 1
    /\ pc = "start"
    /\ comps = <<>>
    /\ stack = <<>>
    /\ norm_path = <<>>
    /\ first = <<>>
    /\ fs = Tree
    /\ val = NoVal
    /\ res = NoRes
    /\ WalkIdle

\* let mut stack = vec![]; for component in path.components()
CleanStart ==
    /\ pc = "start"
    /\ comps' = components(path)
    /\ stack' = <<>>
    /\ pc' = "loop"
    /\ UNCHANGED <<input, path, pass, norm_path, first>>
    /\ UNCHANGED fvars
    /\ UNCHANGED wvars

\* One component taken from the iterator and matched.
CleanLoop ==
    /\ pc = "loop"
    /\ comps # <<>>
    /\ comps' = Tail(comps)
    /\ IF step_panics(stack, Head(comps))
       THEN pc' = "panic" /\ stack' = stack
       ELSE pc' = "loop" /\ stack' = clean_step(stack, Head(comps))
    /\ UNCHANGED <<input, path, pass, norm_path, first>>
    /\ UNCHANGED fvars
    /\ UNCHANGED wvars

\* The iterator is exhausted: the result is built and returned.
CleanReturn ==
    /\ pc = "loop"
    /\ comps = <<>>
    /\ norm_path' = clean_result(stack)
    /\ pc' = "done"
    /\ UNCHANGED <<input, path, pass, comps, stack, first>>
    /\ UNCHANGED fvars
    /\ UNCHANGED wvars

\* clean_path called again on what it returned.
CleanAgain ==
    /\ pc = "done"
    /\ pass = 1
    /\ first' = norm_path
    /\ path' = norm_path
    /\ pass' = 2
    /\ pc' = "start"
    /\ UNCHANGED <<input, comps, stack, norm_path>>
    /\ UNCHANGED fvars
    /\ UNCHANGED wvars

CleanNext == CleanStart \/ CleanLoop \/ CleanReturn \/ CleanAgain

CleanSpec == CleanInit /\ [][CleanNext]_vars

\* ------------------------------------------------ the filesystem's calls
RECURSIVE Bodies(_)
Bodies(n) ==
    IF n = 0 THEN {<<>>}
    ELSE LET shorter == Bodies(n - 1)
         IN  shorter \cup
             {Append(b, c) : b \in {s \in shorter : Len(s) = n - 1},
                             c \in {ParentDir} \cup {Name(ch) : ch \in Names}}

\* The argument paths: absolute, relative, and relative with a leading '.'.
ArgPaths ==
    {h \o b : h \in {<<>>, <<RootDir>>, <<CurDir>>}, b \in Bodies(MaxDepth)}

FsInit ==
    /\ fs = Tree
    /\ val = NoVal
    /\ res = NoRes
    /\ input = <<>>
    /\ path = <<>>
    /\ pass = 1
    /\ pc = "idle"
    /\ comps = <<>>
    /\ stack = <<>>
    /\ norm_path = <<>>
    /\ first = <<>>
    /\ WalkIdle

\* A constructor called with the path p: the caller holds the value of an Ok.
Construct(op, p, out, ty) ==
    /\ res' = [op |-> op, arg |-> p, out |-> out]
    /\ val' = IF out.ok /\ ty # "none" THEN [ty |-> ty, path |-> out.path]
              ELSE NoVal
    /\ UNCHANGED fs
    /\ UNCHANGED cvars
    /\ UNCHANGED wvars

\* A conversion that consumes the value the caller holds.
Consume(op, out) ==
    /\ res' = [op |-> op, arg |-> val.path, out |-> out]
    /\ val' = NoVal
    /\ UNCHANGED fs
    /\ UNCHANGED cvars
    /\ UNCHANGED wvars

\* Each constructor is called once the caller is done with the call before.
NewEntry ==
    /\ res = NoRes
    /\ \E p \in ArgPaths :
        Construct("PathEntry::new", p, PathEntry_new(fs, p), "PathEntry")

\* PathEntry::mock: any path at all, unchecked.
MockEntry ==
    /\ res = NoRes
    /\ \E p \in ArgPaths :
        Construct("PathEntry::mock", p, Ok("PathEntry", p, <<>>), "PathEntry")

NewAbs ==
    /\ res = NoRes
    /\ \E p \in ArgPaths :
        Construct("PathAbs::new", p, PathAbs_new(fs, p), "PathAbs")

\* PathType::mock_file(p).into(): a PathAbs of any path at all, unchecked.
MockAbs ==
    /\ res = NoRes
    /\ \E p \in ArgPaths :
        Construct("PathType::mock_file", p, Ok("PathAbs", p, <<>>), "PathAbs")

NewSymlink ==
    /\ res = NoRes
    /\ \E p \in ArgPaths :
        Construct("PathSymlink::new", p, PathSymlink_new(fs, p), "PathSymlink")

NewPathType ==
    /\ res = NoRes
    /\ \E p \in ArgPaths :
        Construct("PathType::new", p, PathType_new(fs, p), "none")

NewEntryType ==
    /\ res = NoRes
    /\ \E p \in ArgPaths :
        Construct("EntryType::new", p, EntryType_new(fs, p), "none")

SymlinkFromEntry ==
    /\ val.ty = "PathEntry"
    /\ Consume("PathSymlink::from_entry", PathSymlink_from_entry(fs, val.path))

IntoSymlink ==
    /\ val.ty = "PathEntry"
    /\ Consume("PathEntry::into_symlink", PathEntry_into_symlink(fs, val.path))

PathTypeFromAbs ==
    /\ val.ty = "PathAbs"
    /\ Consume("PathType::from_abs", PathType_from_abs(fs, val.path))

EntryTypeFromEntry ==
    /\ val.ty = "PathEntry"
    /\ Consume("EntryType::from_entry", EntryType_from_entry(fs, val.path))

\* canonicalize_parent called on a path: a PathArc, nothing verified of it.
CanonicalizeParent ==
    /\ res = NoRes
    /\ \E p \in ArgPaths :
        Construct("canonicalize_parent", p, canonicalize_parent(fs, p), "none")

\* parent_dir of the entry the caller holds, of records which constructor
\* the entry is from; the caller goes on with the directory alone.
ParentDirOfEntry ==
    /\ val.ty = "PathEntry"
    /\ res.op \in {"PathEntry::new", "PathEntry::mock"}
    /\ res' = [op |-> "PathEntry::parent_dir", arg |-> val.path, of |-> res.op,
               out |-> PathEntry_parent_dir(val.path)]
    /\ val' = NoVal
    /\ UNCHANGED fs
    /\ UNCHANGED cvars
    /\ UNCHANGED wvars

\* target and follow of the symlink the caller holds; the caller goes on
\* with the result alone.
SymlinkTarget ==
    /\ val.ty = "PathSymlink"
    /\ Consume("PathSymlink::target", PathSymlink_target(fs, val.path))

SymlinkFollow ==
    /\ val.ty = "PathSymlink"
    /\ Consume("PathSymlink::follow", PathSymlink_follow(fs, val.path))

\* The destinations of a rename: a new name and an old one beside the
\* source, on the other device, in the empty directory, a bare name, a name
\* behind a link, one in a directory that is not there and one in a file.
RenameTo ==
    {Abs(<<"x">>), Abs(<<"o">>), Abs(<<"d", "x">>), Abs(<<"d", "f">>),
     Abs(<<"d", "e">>), Abs(<<"d", "e", "x">>), Abs(<<"k", "x">>),
     Abs(<<"x", "x">>), Abs(<<"f", "x">>),
     <<Name("x")>>, <<CurDir, Name("x")>>}

\* A rename of the value the caller holds: the tree is what the call leaves,
\* the caller holds the PathSymlink of an Ok. A behaviour ends with its
\* first rename that changes the tree.
Rename(op, ty, to, r) ==
    /\ val.ty = ty
    /\ fs = Tree
    /\ res' = [op |-> op, arg |-> val.path, to |-> to, out |-> r.out]
    /\ val' = IF r.out.ok THEN [ty |-> "PathSymlink", path |-> r.out.path]
              ELSE NoVal
    /\ fs' = r.fs
    /\ UNCHANGED cvars
    /\ UNCHANGED wvars

EntryRename ==
    /\ val.ty = "PathEntry"
    /\ \E to \in RenameTo :
        Rename("PathEntry::rename", "PathEntry", to,
               PathEntry_rename(fs, val.path, to))

SymlinkRename ==
    /\ val.ty = "PathSymlink"
    /\ \E to \in RenameTo :
        Rename("PathSymlink::rename", "PathSymlink", to,
               PathSymlink_rename(fs, val.path, to))

\* The caller is done with the last result and drops what it holds.
Forget ==
    /\ res # NoRes
    /\ fs = Tree
    /\ res' = NoRes
    /\ val' = NoVal
    /\ UNCHANGED fs
    /\ UNCHANGED cvars
    /\ UNCHANGED wvars

FsNext ==
    \/ NewEntry
    \/ MockEntry
    \/ NewAbs
    \/ MockAbs
    \/ NewSymlink
    \/ NewPathType
    \/ NewEntryType
    \/ SymlinkFromEntry
    \/ IntoSymlink
    \/ PathTypeFromAbs
    \/ EntryTypeFromEntry
    \/ CanonicalizeParent
    \/ ParentDirOfEntry
    \/ SymlinkTarget
    \/ SymlinkFollow
    \/ EntryRename
    \/ SymlinkRename
    \/ Forget

Spec == FsInit /\ [][FsNext]_vars

\* ========================================================= discover_paths
\* The tree of the test sanity_path_abs: tmp/{f1, dir1/{f1, f2}, dir2/{f1}}.
Tmp == Normal(<<"t", "m", "p">>)
F1 == Normal(<<"f", "1">>)
F2 == Normal(<<"f", "2">>)
Dir1 == Normal(<<"d", "i", "r", "1">>)
Dir2 == Normal(<<"d", "i", "r", "2">>)

TestTree ==
    (Root :> Dir) @@ (<<RootDir, Tmp>> :> Dir)
    @@ (<<RootDir, Tmp, F1>> :> File)
    @@ (<<RootDir, Tmp, Dir1>> :> Dir)
    @@ (<<RootDir, Tmp, Dir1, F1>> :> File)
    @@ (<<RootDir, Tmp, Dir1, F2>> :> File)
    @@ (<<RootDir, Tmp, Dir2>> :> Dir)
    @@ (<<RootDir, Tmp, Dir2, F1>> :> File)

\* The paths of the test: tmp and all in it.
TestPaths == DOMAIN TestTree \ {Root}

\* The paths discover_paths is called with: tmp, a directory in it, and tmp
\* by a path that is not canonical.
WalkRoots ==
    {<<RootDir, Tmp>>, <<RootDir, Tmp, Dir1>>, <<RootDir, Tmp, Dir1, ParentDir>>}

\* The filters: |_| true, the test's filter that rejects the name f1, and
\* |_| false.
Filters == {"all", "not_f1", "none"}

filter_accepts(flt, abs) ==
    IF flt = "all" THEN TRUE
    ELSE IF flt = "not_f1" THEN file_name(abs).name # F1
    ELSE FALSE

\* fs::read_dir as WalkDir uses it: the entries of a directory, each the
\* directory's path joined with a name.
read_dir(f, dir) ==
    {join(dir, Last(l)) :
        l \in {l \in DOMAIN f : l # Root /\ Pop(l) = os_canonicalize(f, dir).loc}}

\* DirEntry::file_type: of the entry itself, a symlink not followed.
file_type(f, entry) == os_symlink_metadata(f, entry).type

\* The iterator: start is TRUE until the root is yielded, stack holds for
\* each open directory the entries it has yet to yield, innermost last.
IterNew == [start |-> TRUE, stack |-> <<>>]

RECURSIVE drained(_)
drained(stk) ==
    IF stk = <<>> THEN stk
    ELSE IF Last(stk) = {} THEN drained(Pop(stk))
    ELSE stk

\* it.next() is Some exactly when has_next; the entry is the root first and
\* then one of the innermost open directory, in the order of the OS.
has_next(i) == i.start \/ drained(i.stack) # <<>>

next_entries(i, root) ==
    IF i.start THEN {root} ELSE Last(drained(i.stack))

\* The iterator after it has yielded entry: a directory is opened.
after_next(f, i, entry) ==
    LET open == drained(i.stack)
        rest == IF i.start THEN <<>>
                ELSE [open EXCEPT ![Len(open)] = @ \ {entry}]
    IN  [start |-> FALSE,
         stack |-> IF file_type(f, entry) = "dir"
                   THEN Append(rest, read_dir(f, entry))
                   ELSE rest]

\* IntoIter::skip_current_dir: the innermost open directory is closed.
skip_current_dir(i) ==
    IF i.stack # <<>> THEN [i EXCEPT !.stack = Pop(@)] ELSE i

\* The state of the loop of discover_paths.
Loop(i, fnd, ask, at) == [it |-> i, found |-> fnd, asked |-> ask, wpc |-> at]

\* The body of the loop with the filter called for directories as well.
loop_body_filtering_dirs(i, fnd, ask, abs, filetype, vis, flt) ==
    IF abs \in vis
    THEN Loop(IF filetype = "dir" THEN skip_current_dir(i) ELSE i, fnd, ask, "loop")
    ELSE IF ~filter_accepts(flt, abs) THEN Loop(i, fnd, ask \cup {abs}, "loop")
    ELSE IF filetype = "dir"
         THEN Loop(i, [fnd EXCEPT !.dirs = Append(@, abs)], ask \cup {abs}, "loop")
    ELSE Loop(i, [fnd EXCEPT !.files = Append(@, abs)], ask \cup {abs}, "loop")

\* The body of the loop with a visited directory passed over but not closed.
loop_body_not_skipping(i, fnd, ask, abs, filetype, vis, flt) ==
    IF abs \in vis THEN Loop(i, fnd, ask, "loop")
    ELSE IF filetype = "dir"
         THEN Loop(i, [fnd EXCEPT !.dirs = Append(@, abs)], ask, "loop")
    ELSE IF ~filter_accepts(flt, abs) THEN Loop(i, fnd, ask \cup {abs}, "loop")
    ELSE Loop(i, [fnd EXCEPT !.files = Append(@, abs)], ask \cup {abs}, "loop")

\* The body of the loop for the entry at abs, after it.next() and
\* PathAbs::new: a visited path is passed over and, if a directory, closed;
\* a directory is found; a file is found if the filter accepts it.
loop_body(i, fnd, ask, abs, filetype, vis, flt) ==
    IF abs \in vis
    THEN Loop(IF filetype = "dir" THEN skip_current_dir(i) ELSE i, fnd, ask, "loop")
    ELSE IF filetype = "dir"
         THEN Loop(i, [fnd EXCEPT !.dirs = Append(@, abs)], ask, "loop")
    ELSE IF filetype # "file" THEN Loop(i, fnd, ask, "panic")
    ELSE IF ~filter_accepts(flt, abs) THEN Loop(i, fnd, ask \cup {abs}, "loop")
    ELSE Loop(i, [fnd EXCEPT !.files = Append(@, abs)], ask \cup {abs}, "loop")

\* discover_paths(path, filter, visited) is called on the test's tree.
WalkInit ==
    /\ fs = TestTree
    /\ val = NoVal
    /\ res = NoRes
    /\ input = <<>>
    /\ path = <<>>
    /\ pass = 1
    /\ pc = "idle"
    /\ comps = <<>>
    /\ stack = <<>>
    /\ norm_path = <<>>
    /\ first = <<>>
    /\ walk_path \in WalkRoots
    /\ filter \in Filters
    /\ visited \in SUBSET TestPaths
    /\ it = IterNew
    /\ found = [files |-> <<>>, dirs |-> <<>>]
    /\ asked = {}
    /\ yielded = {}
    /\ wpc = "loop"

\* One turn of the loop: it.next() is Some(entry).
WalkEntry ==
    /\ wpc = "loop"
    /\ has_next(it)
    /\ \E entry \in next_entries(it, walk_path) :
        LET abs == PathAbs_new(fs, entry)
            turn == loop_body(after_next(fs, it, entry), found, asked,
                              abs.path, file_type(fs, entry), visited, filter)
        IN  IF ~abs.ok
            THEN /\ wpc' = "err"
                 /\ it' = after_next(fs, it, entry)
                 /\ UNCHANGED <<found, asked, yielded>>
            ELSE /\ it' = turn.it
                 /\ found' = turn.found
                 /\ asked' = turn.asked
                 /\ wpc' = turn.wpc
                 /\ yielded' = yielded \cup {abs.path}
    /\ UNCHANGED <<walk_path, filter, visited>>
    /\ UNCHANGED cvars
    /\ UNCHANGED fvars

\* it.next() is None: break, and Ok(found) is returned.
WalkBreak ==
    /\ wpc = "loop"
    /\ ~has_next(it)
    /\ wpc' = "done"
    /\ UNCHANGED <<walk_path, filter, visited, it, found, asked, yielded>>
    /\ UNCHANGED cvars
    /\ UNCHANGED fvars

WalkNext == WalkEntry \/ WalkBreak

WalkSpec == WalkInit /\ [][WalkNext]_vars

\* ------------------------------------------------- clean_path: properties
\* The components of the returned path, "." standing for none at all.
result_components ==
    IF norm_path = <<".">> THEN <<>> ELSE components(norm_path)

RemoveAt(s, i) == SubSeq(s, 1, i - 1) \o SubSeq(s, i + 1, Len(s))

\* The lexical meaning of a component list, by rewriting: a '.' goes, a name
\* directly followed by '..' goes with it, a '..' directly after the root goes.
RECURSIVE reduce(_)
reduce(cs) ==
    LET dots == {i \in 1..Len(cs) : cs[i].kind = "CurDir"}
        pairs == {i \in 1..(Len(cs) - 1) :
                    cs[i].kind = "Normal" /\ cs[i + 1].kind = "ParentDir"}
        above == {i \in 1..(Len(cs) - 1) :
                    cs[i].kind = "RootDir" /\ cs[i + 1].kind = "ParentDir"}
        least(S) == CHOOSE i \in S : \A j \in S : i <= j
    IN  IF dots # {} THEN reduce(RemoveAt(cs, least(dots)))
        ELSE IF pairs # {}
             THEN reduce(RemoveAt(RemoveAt(cs, least(pairs)), least(pairs)))
        ELSE IF above # {} THEN reduce(RemoveAt(cs, least(above) + 1))
        ELSE cs

\* The number of '..' of a relative component list that no earlier name is
\* left to cancel: depth counts the names still open.
RECURSIVE unmatched(_, _, _)
unmatched(cs, depth, ups) ==
    IF cs = <<>> THEN ups
    ELSE IF Head(cs).kind = "Normal" THEN unmatched(Tail(cs), depth + 1, ups)
    ELSE IF Head(cs).kind = "ParentDir"
         THEN IF depth > 0 THEN unmatched(Tail(cs), depth - 1, ups)
              ELSE unmatched(Tail(cs), depth, ups + 1)
    ELSE unmatched(Tail(cs), depth, ups)

\* C1: clean_path is idempotent: cleaning what clean_path returned gives the
\* same path again.
C1_Idempotent ==
    (pc = "done" /\ pass = 2) => norm_path = first

\* A second cleaning has returned, of a first result that differs from the input.
C1_Witness ==
    /\ pc = "done"
    /\ pass = 2
    /\ input = UpUpIn
    /\ first = UpUpOut
    /\ norm_path = UpUpOut

\* C2: for a path that starts at the root the stack never holds a '..' and
\* the result has no '..' component; "/../../../cannot_go_above_root" gives
\* "/cannot_go_above_root".
C2_RootAbsorbsParent ==
    /\ (pc \in {"loop", "done"} /\ has_root(path)) =>
            \A i \in 1..Len(stack) : stack[i].kind # "ParentDir"
    /\ (pc = "done" /\ has_root(path)) =>
            \A i \in 1..Len(result_components) :
                result_components[i].kind # "ParentDir"
    /\ (pc = "done" /\ path = Doc3In) => norm_path = Doc3Out

C2_Witness ==
    /\ pc = "done"
    /\ input = Doc3In
    /\ pass = 1
    /\ norm_path = Doc3Out

\* C3: for a relative path the result is the '..' that nothing cancels, as
\* many as there are and all at the start, followed by names only;
\* "../.././lots///of////./separators/" gives "../../lots/of/separators" and
\* "a/../../b" gives "../b".
C3_LeadingParentsKept ==
    /\ (pc = "done" /\ ~has_root(path)) =>
            LET ups == unmatched(components(path), 0, 0)
            IN  /\ Len(result_components) >= ups
                /\ \A i \in 1..Len(result_components) :
                      IF i <= ups THEN result_components[i] = ParentDir
                      ELSE result_components[i].kind = "Normal"
    /\ (pc = "done" /\ path = Doc2In) => norm_path = Doc2Out
    /\ (pc = "done" /\ path = UpUpIn) => norm_path = UpUpOut

C3_Witness ==
    /\ pc = "done"
    /\ pass = 1
    /\ input = UpUpIn
    /\ unmatched(components(input), 0, 0) = 1
    /\ norm_path = UpUpOut

\* C4: the result is the input with every '.' dropped and every name that a
\* '..' meets on top of the stack cancelled together with that '..', the
\* components left standing in their original order;
\* "/recipes/./snacks/../desserts/banana_creme_pie.txt" gives
\* "/recipes/desserts/banana_creme_pie.txt" and "./a/./b/" gives "a/b".
C4_DotsDroppedPairsCancel ==
    /\ pc = "done" => result_components = reduce(components(path))
    /\ (pc = "done" /\ path = Doc1In) => norm_path = Doc1Out
    /\ (pc = "done" /\ path = DotsIn) => norm_path = DotsOut

C4_Witness ==
    /\ pc = "done"
    /\ pass = 1
    /\ input = Doc1In
    /\ norm_path = Doc1Out

\* C5: clean_path never returns an empty path: when nothing is left of the
\* input (empty, all '.', or every name cancelled by a '..') it returns ".".
C5_NeverEmpty ==
    pc = "done" =>
        /\ norm_path # <<>>
        /\ reduce(components(path)) = <<>> => norm_path = <<".">>
        /\ path \in {<<>>, <<".">>, <<".", "/", ".">>, CancelIn} =>
                norm_path = <<".">>

C5_Witness ==
    /\ pc = "done"
    /\ pass = 1
    /\ input = CancelIn
    /\ stack = <<>>
    /\ norm_path = <<".">>

\* ------------------------------------------- the constructors: properties
\* What the OS finds at the argument of the last call, not following a final
\* symlink (lstat) and following it (stat).
lstat_arg == os_symlink_metadata(fs, res.arg)
stat_arg == os_metadata(fs, res.arg)

EntryConstructors == {"PathEntry::new", "PathSymlink::new", "EntryType::new"}

\* C6 as stated: at a path where nothing exists, each constructor built on
\* PathEntry::new fails with an error of NotFound class and returns no value.
C6_AlwaysNotFound ==
    (res.op \in EntryConstructors /\ ~lstat_arg.ok) =>
        (~res.out.ok /\ val = NoVal /\ res.out.kind = "NotFound")

\* C6, amended: at a path where nothing exists, each constructor built on
\* PathEntry::new fails and returns no value; the error is the OS error, of
\* NotFound class when a component of the path is missing (the final one in
\* an existing parent directory, or one of the parent's), and not of
\* NotFound class when the path runs through something that is no directory
\* or through a symlink loop.
C6_FailsWithOsError ==
    (res.op \in EntryConstructors /\ ~lstat_arg.ok) =>
        /\ ~res.out.ok
        /\ val = NoVal
        /\ res.out.kind = "NotFound" <=> lstat_arg.errno = "ENOENT"
        /\ LET split == split_file_name(res.arg)
               par == os_metadata(fs, split.parent)
           IN  split.some =>
                /\ (par.ok /\ par.type = "dir") => res.out.kind = "NotFound"
                /\ (~par.ok /\ par.errno = "ENOENT") => res.out.kind = "NotFound"

\* PathEntry::new has failed on /d/x: the directory is there, the name is not.
C6_Witness ==
    /\ res.op = "PathEntry::new"
    /\ res.arg = Abs(<<"d", "x">>)
    /\ ~res.out.ok
    /\ res.out.kind = "NotFound"
    /\ val = NoVal

\* C7: PathSymlink::from_entry and PathEntry::into_symlink return Ok of the
\* very entry exactly when the entry is a symlink by symlink_metadata; for
\* an entry that is there as anything else they return an InvalidInput error
\* with action "resolving" and the entry's path.
C7_SymlinkIffLinkBit ==
    res.op \in {"PathSymlink::from_entry", "PathEntry::into_symlink"} =>
        /\ res.out.ok <=> (lstat_arg.ok /\ lstat_arg.type = "symlink")
        /\ res.out.ok => (res.out.variant = "PathSymlink" /\ res.out.path = res.arg)
        /\ (lstat_arg.ok /\ lstat_arg.type \in {"dir", "file", "other"}) =>
                /\ ~res.out.ok
                /\ res.out.kind = "InvalidInput"
                /\ res.out.action = "resolving"
                /\ res.out.path = res.arg

\* from_entry has refused /d/f, the entry of a regular file.
C7_Witness ==
    /\ res.op = "PathSymlink::from_entry"
    /\ res.arg = Abs(<<"d", "f">>)
    /\ lstat_arg.type = "file"
    /\ res.out.kind = "InvalidInput"
    /\ res.out.action = "resolving"

\* C8: PathType::from_abs makes one metadata query; it returns File of the
\* path exactly when the query finds a regular file, Dir exactly when it
\* finds a directory, and for anything else the query finds an InvalidInput
\* error with the path; the wrapped path is the input path; the path of a
\* PathType from PathType::new is no symlink.
C8_PathTypeClassifies ==
    /\ res.op = "PathType::from_abs" =>
        /\ res.out.calls = <<Call("metadata", res.arg)>>
        /\ (res.out.ok /\ res.out.variant = "PathType::File")
                <=> (stat_arg.ok /\ stat_arg.type = "file")
        /\ (res.out.ok /\ res.out.variant = "PathType::Dir")
                <=> (stat_arg.ok /\ stat_arg.type = "dir")
        /\ (stat_arg.ok /\ stat_arg.type \notin {"file", "dir"}) =>
                (~res.out.ok /\ res.out.kind = "InvalidInput")
        /\ res.out.path = res.arg
    /\ (res.op = "PathType::new" /\ res.out.ok) =>
        /\ res.out.variant \in {"PathType::File", "PathType::Dir"}
        /\ os_symlink_metadata(fs, res.out.path).ok
        /\ os_symlink_metadata(fs, res.out.path).type # "symlink"

\* from_abs has refused the fifo /o with InvalidInput.
C8_Witness ==
    /\ res.op = "PathType::from_abs"
    /\ res.arg = Abs(<<"o">>)
    /\ stat_arg.type = "other"
    /\ res.out.kind = "InvalidInput"
    /\ res.out.path = res.arg

\* C9: EntryType::from_entry does not fail for an entry that is there: it
\* returns Symlink for a symlink whatever it points at, else File for a
\* regular file, else Dir for a directory, else Other, of the same path.
C9_EntryTypeTotal ==
    (res.op = "EntryType::from_entry" /\ lstat_arg.ok) =>
        /\ res.out.ok
        /\ res.out.path = res.arg
        /\ res.out.variant =
              (IF lstat_arg.type = "symlink" THEN "EntryType::Symlink"
               ELSE IF lstat_arg.type = "file" THEN "EntryType::File"
               ELSE IF lstat_arg.type = "dir" THEN "EntryType::Dir"
               ELSE "EntryType::Other")

\* from_entry has classified /d/l, a link to a regular file, as Symlink.
C9_Witness ==
    /\ res.op = "EntryType::from_entry"
    /\ res.arg = Abs(<<"d", "l">>)
    /\ stat_arg.type = "file"
    /\ res.out.variant = "EntryType::Symlink"

\* C10: EntryType::new of a path that is there (PathEntry::new finds it) but
\* is neither a regular file nor a directory returns an InvalidInput error.
C10_InvalidInputUnlessFileOrDir ==
    (res.op = "EntryType::new" /\ PathEntry_new(fs, res.arg).ok
        /\ lstat_arg.ok /\ lstat_arg.type \notin {"file", "dir"}) =>
            (~res.out.ok /\ res.out.kind = "InvalidInput")

\* ------------------------------------------------------ rename: properties
RenameOps == {"PathEntry::rename", "PathSymlink::rename"}

\* A step that is a call of rename, and what the OS answers to it.
RenameStep == res' # res /\ res'.op \in RenameOps
os_answer == os_rename(fs, val.path, res'.to)

\* C11: a rename whose OS rename fails returns the action "renaming to <to>
\* from" with the source path; a rename whose OS rename succeeds and whose
\* re-validation of the destination fails returns another action with the
\* destination path (as given, or as the OS resolves it), the tree being the
\* renamed one.
C11_RevalidationNamesDestination ==
    [][RenameStep =>
        /\ ~os_answer.ok =>
            /\ ~res'.out.ok
            /\ res'.out.action = renaming_to(res'.to)
            /\ res'.out.path = val.path
        /\ (os_answer.ok /\ ~res'.out.ok) =>
            /\ fs' = os_answer.fs
            /\ res'.out.action # renaming_to(res'.to)
            /\ res'.out.path \in {res'.to, lookup_new(fs, res'.to).loc}
      ]_vars

C13_ParentIsCanonicalDir ==
    (res.op = "PathEntry::parent_dir" /\ res.of = "PathEntry::new") =>
        /\ res.out.calls = <<>>
        /\ res.out.variant \in {"Some(PathDir)", "None"}
        /\ res.out.variant = "Some(PathDir)" =>
            /\ res.arg # <<>>
            /\ res.out.path = Pop(res.arg)
            /\ os_symlink_metadata(fs, res.out.path).ok
            /\ os_symlink_metadata(fs, res.out.path).type = "dir"
            /\ os_canonicalize(fs, res.out.path).ok
            /\ os_canonicalize(fs, res.out.path).loc = res.out.path
        /\ res.out.variant = "None" => res.arg = Root

\* parent_dir of the entry /d/l (a link, made by PathEntry::new) is /d.
C13_Witness ==
    /\ res.op = "PathEntry::parent_dir"
    /\ res.of = "PathEntry::new"
    /\ res.arg = Abs(<<"d", "l">>)
    /\ res.out.variant = "Some(PathDir)"
    /\ res.out.path = Abs(<<"d">>)
    /\ res.out.calls = <<>>

\* ------------------------------------------ canonicalize_parent: properties
\* C14: for a path that splits into parent and final name canonicalize_parent
\* returns the canonical parent joined with the name: it succeeds whenever
\* the directory the name is in exists (the OS resolves it), whether the
\* name is there or not, and the name is kept, a symlink not followed; for a
\* path that does not split it returns the OS canonicalization of the path.
C14_SucceedsWhenParentExists ==
    res.op = "canonicalize_parent" =>
        LET split == split_file_name(res.arg)
            dir == lookup_new(fs, res.arg)
            whole == os_canonicalize(fs, res.arg)
            par == os_canonicalize(fs, split.parent)
        IN  /\ split.some =>
                /\ res.out.ok <=> par.ok
                /\ res.out.ok =>
                    /\ res.out.path = join(par.loc, split.name)
                    /\ Last(res.out.path) = Last(res.arg)
                /\ dir.ok => (res.out.ok /\ res.out.path = dir.loc)
            /\ ~split.some =>
                /\ res.out.ok <=> whole.ok
                /\ res.out.ok => res.out.path = whole.loc

\* --------------------------------------------- target, follow: properties
\* The target stored in the link at the argument of the last call, and what
\* the OS finds where it points from the link's own directory, a final
\* symlink not followed.
raw_target == fs[res.arg].target
one_hop ==
    os_symlink_metadata(fs, IF Head(raw_target).kind = "RootDir" THEN raw_target
                            ELSE Pop(res.arg) \o raw_target)

\* C15: target() of a symlink returns the stored target, an absolute one as
\* it is and a relative one joined to the directory of the link (never to
\* the working directory); follow() returns the entry at that target, not
\* followed if it is itself a symlink, and fails when nothing is there.
C15_TargetFromLinkDirectory ==
    /\ (res.op = "PathSymlink::target" /\ lstat_arg.ok) =>
        /\ res.out.ok
        /\ Head(raw_target).kind = "RootDir" => res.out.path = raw_target
        /\ Head(raw_target).kind # "RootDir" =>
                res.out.path = Pop(res.arg) \o raw_target
        /\ res.out.calls = <<Call("read_link", res.arg)>>
    /\ (res.op = "PathSymlink::follow" /\ lstat_arg.ok) =>
        /\ res.out.ok <=> one_hop.ok
        /\ res.out.ok =>
            /\ res.out.variant = "PathEntry"
            /\ res.out.path = one_hop.loc
            /\ one_hop.type = "symlink" =>
                    os_symlink_metadata(fs, res.out.path).type = "symlink"
        /\ (~one_hop.ok /\ one_hop.errno = "ENOENT") =>
                (~res.out.ok /\ res.out.kind = "NotFound")

\* follow of /c, whose target /k is itself a link, has stopped at /k.
C15_Witness ==
    /\ res.op = "PathSymlink::follow"
    /\ res.arg = Abs(<<"c">>)
    /\ res.out.ok
    /\ res.out.path = Abs(<<"k">>)
    /\ os_symlink_metadata(fs, res.out.path).type = "symlink"

\* ---------------------------------------------- discover_paths: properties
\* The canonical path discover_paths walks from, and the tree it walks.
walk_root == os_canonicalize(fs, walk_path).loc
Walked == {l \in DOMAIN fs : IsPrefix(walk_root, l)}
WalkedDirs == {l \in Walked : fs[l].type = "dir"}
WalkedFiles == {l \in Walked : fs[l].type = "file"}

\* What lies in a visited directory of the walked tree.
Hidden ==
    {l \in Walked : \E v \in visited \cap WalkedDirs : IsPrefix(v, l) /\ l # v}

Range(s) == {s[i] : i \in 1..Len(s)}
NoRepeat(s) == Cardinality(Range(s)) = Len(s)

\* C16: with visited empty discover_paths returns in dirs every directory of
\* the walked tree, the root among them, whatever the filter, and in files
\* the files the filter accepts and no other, each path once; the filter is
\* not called with a directory. On the test's tree: all four files and three
\* directories for |_| true, the file dir1/f2 and the three directories for
\* the filter that rejects the name f1.
C16_EmptyVisitedFindsAll ==
    /\ (wpc = "done" /\ visited = {}) =>
        /\ Range(found.dirs) = WalkedDirs
        /\ walk_root \in Range(found.dirs)
        /\ Range(found.files) = {l \in WalkedFiles : filter_accepts(filter, l)}
        /\ NoRepeat(found.dirs)
        /\ NoRepeat(found.files)
    /\ \A a \in asked : fs[a].type = "file"
    /\ (wpc = "done" /\ visited = {} /\ walk_path = <<RootDir, Tmp>>) =>
        /\ Range(found.dirs) =
                {<<RootDir, Tmp>>, <<RootDir, Tmp, Dir1>>, <<RootDir, Tmp, Dir2>>}
        /\ filter = "all" =>
                Range(found.files) =
                    {<<RootDir, Tmp, F1>>, <<RootDir, Tmp, Dir1, F1>>,
                     <<RootDir, Tmp, Dir1, F2>>, <<RootDir, Tmp, Dir2, F1>>}
        /\ filter = "not_f1" => found.files = <<(<<RootDir, Tmp, Dir1, F2>>)>>

\* The third case of the test has returned: f1 filtered, all directories.
C16_Witness ==
    /\ wpc = "done"
    /\ visited = {}
    /\ walk_path = <<RootDir, Tmp>>
    /\ filter = "not_f1"
    /\ found.files = <<(<<RootDir, Tmp, Dir1, F2>>)>>
    /\ Len(found.dirs) = 3
    /\ Cardinality(asked) = 4

\* C17: discover_paths never puts a visited path in its result and never
\* yields an entry from inside a visited directory; what it returns is what
\* the walked tree holds outside visited and outside the visited
\* directories (files as the filter accepts them). On the test's tree with
\* dir1 and dir2 visited: the file f1 and the directory tmp.
C17_VisitedNeverReturned ==
    /\ \A i \in 1..Len(found.dirs) : found.dirs[i] \notin visited
    /\ \A i \in 1..Len(found.files) : found.files[i] \notin visited
    /\ wpc # "idle" => yielded \cap Hidden = {}
    /\ wpc = "done" =>
        /\ Range(found.dirs) = WalkedDirs \ (visited \cup Hidden)
        /\ Range(found.files) =
                {l \in WalkedFiles \ (visited \cup Hidden) :
                    filter_accepts(filter, l)}
    /\ (wpc = "done" /\ walk_path = <<RootDir, Tmp>> /\ filter = "all"
            /\ visited = {<<RootDir, Tmp, Dir1>>, <<RootDir, Tmp, Dir2>>}) =>
        /\ found.files = <<(<<RootDir, Tmp, F1>>)>>
        /\ found.dirs = <<(<<RootDir, Tmp>>)>>

\* The second case of the test has returned, the iterator having yielded
\* dir1 and dir2 and nothing in them.
C17_Witness ==
    /\ wpc = "done"
    /\ walk_path = <<RootDir, Tmp>>
    /\ filter = "all"
    /\ visited = {<<RootDir, Tmp, Dir1>>, <<RootDir, Tmp, Dir2>>}
    /\ yielded = {<<RootDir, Tmp>>, <<RootDir, Tmp, F1>>, <<RootDir, Tmp, Dir1>>,
                  <<RootDir, Tmp, Dir2>>}
    /\ found.files = <<(<<RootDir, Tmp, F1>>)>>
    /\ found.dirs = <<(<<RootDir, Tmp>>)>>

\* --------------------------------------------- clean_path: the stack's shape
\* No '.' in a component list, and before each '..' a '..' or a prefix or
\* nothing: never a name nor the root.
ParentsLead(cs) ==
    /\ \A i \in 1..Len(cs) : cs[i].kind # "CurDir"
    /\ \A i \in 2..Len(cs) :
            cs[i].kind = "ParentDir" => cs[i - 1].kind \in {"ParentDir", "Prefix"}

\* C18: at every turn of clean_path's loop the stack holds no '.', so the
\* unreachable!() arm is never entered, and a '..' on the stack has only
\* '..' before it (or a prefix directly before it): it never follows a name
\* or the root, on the stack or in the result.
C18_StackShape ==
    /\ pc # "panic"
    /\ pc \in {"loop", "done"} =>
        /\ ParentsLead(stack)
        /\ \A i \in 1..Len(stack) :
                stack[i].kind = "ParentDir" =>
                    \A j \in 1..(i - 1) : stack[j].kind = "ParentDir"
    /\ pc = "done" => ParentsLead(result_components)

\* "./.." has been cleaned: the '.' was dropped and the '..' met an empty
\* stack.
C18_Witness ==
    /\ pc = "done"
    /\ pass = 1
    /\ input = <<".", "/", ".", ".">>
    /\ stack = <<ParentDir>>
    /\ norm_path = <<".", ".">>

\* ------------------------------------------- EntryType: the PathAbs inside
\* C19: from_entry wraps the entry's own path and asks the OS for nothing
\* but its symlink_metadata; and the File, Dir or Other that EntryType::new
\* makes of an entry of PathEntry::new holds a path whose last component is
\* no symlink and which is its own full canonicalization, the tree being as
\* it was at construction.
C19_VariantHoldsCanonicalPath ==
    /\ (res.op = "EntryType::from_entry" /\ res.out.ok) =>
        /\ res.out.path = res.arg
        /\ res.out.calls = <<Call("symlink_metadata", res.arg)>>
    /\ (res.op = "EntryType::new" /\ res.out.ok) =>
        /\ fs = Tree
        /\ res.out.path = PathEntry_new(fs, res.arg).path
        /\ res.out.variant \in
              {"EntryType::File", "EntryType::Dir", "EntryType::Other"} =>
            /\ os_symlink_metadata(fs, res.out.path).type # "symlink"
            /\ os_canonicalize(fs, res.out.path).ok
            /\ os_canonicalize(fs, res.out.path).loc = res.out.path

\* EntryType::new("/k/f"), /k a link to /d, is the File /d/f: the parent was
\* canonicalized, the file itself only looked at.
C19_Witness ==
    /\ res.op = "EntryType::new"
    /\ res.arg = Abs(<<"k", "f">>)
    /\ res.out.ok
    /\ res.out.variant = "EntryType::File"
    /\ res.out.path = Abs(<<"d", "f">>)
    /\ Call("canonicalize", res.out.path) \notin Range(res.out.calls)

====
